---- MODULE Spec2Model ----
(***************************************************************************)
(* Model of mbu_process_dashboard_shared_components/process_step_run.py:   *)
(* the step-run resolver, the update-payload builder and the step-run      *)
(* updater, driven by a caller that invokes them one at a time against an  *)
(* HTTP client and three lookup collaborators whose answers are inputs.    *)
(***************************************************************************)
EXTENDS Integers, Sequences, FiniteSets, TLC

\* Ids handed out by the dashboard are drawn from 0..MaxId.
MaxId == 1
\* The clock is read at instants 0..MaxInstant, half a millisecond apart.
MaxInstant == 3

VARIABLES
    pc,       \* position of the resolver: "idle" or the stage about to run
    call,     \* the operation in progress or last finished, with its arguments
    locals,   \* local variables of the resolver call in progress
    trace,    \* collaborator calls made by the operation in `call`, in order
    outcome   \* how the operation in `call` ended: pending, return or raise

vars == <<pc, call, locals, trace, outcome>>

(***************************************************************************)
(* Python values.                                                          *)
(***************************************************************************)
None == [type |-> "NoneType"]
PyInt(n) == [type |-> "int", val |-> n]
PyStr(s) == [type |-> "str", val |-> s]
PyList == [type |-> "list"]
PyDict(m) == [type |-> "dict", members |-> m]

Ids == 0..MaxId

Return(v) == [kind |-> "return", value |-> v]
Raise(e) == [kind |-> "raise", error |-> e]
Pending == [kind |-> "pending"]

Error(cls, msg) == [type |-> "exception", cls |-> cls, text |-> msg]

\* dict.get(key): the member, or None when the key is absent.
DictGet(d, key) == IF key \in DOMAIN d.members THEN d.members[key] ELSE None

DigitChar(d) ==
    CASE d = 0 -> "0" [] d = 1 -> "1" [] d = 2 -> "2" [] d = 3 -> "3"
      [] d = 4 -> "4" [] d = 5 -> "5" [] d = 6 -> "6" [] d = 7 -> "7"
      [] d = 8 -> "8" [] d = 9 -> "9"

RECURSIVE NatStr(_)
NatStr(n) == IF n < 10 THEN DigitChar(n) ELSE NatStr(n \div 10) \o DigitChar(n % 10)

\* The text an f-string puts for a value: format(v, "").
Format(v) ==
    CASE v.type = "int" -> (IF v.val < 0 THEN "-" \o NatStr(-v.val) ELSE NatStr(v.val))
      [] v.type = "str" -> v.val
      [] v.type = "NoneType" -> "None"

(***************************************************************************)
(* Collaborators: the three id lookups and the HTTP client.  Each answer   *)
(* is an input: an integer id or a raised error for a lookup, a response   *)
(* (status code and parsed JSON body) or a raised error for the client.    *)
(***************************************************************************)
ProcessNames == {"Tandplejen", "Pladsanvisning"}
StepNames == {"Journalisering"}
Cprs == {"0101011234"}

LookupReturns(what) ==
    {Return(PyInt(i)) : i \in Ids}
        \cup {Raise(Error("RuntimeError", what \o " not found"))}

IdValues == {None, PyStr("7")} \cup {PyInt(i) : i \in Ids}

JsonBodies ==
    {PyDict([k \in {"id"} |-> v]) : v \in IdValues}
        \cup {PyDict([k \in {"id", "status"} |-> IF k = "id" THEN PyInt(i) ELSE PyStr("pending")]) : i \in Ids}
        \cup {PyDict([k \in {"detail"} |-> PyStr("Not found")]),
              PyDict([k \in {} |-> None]),
              PyList, None, PyStr("Not found")}

StatusCodes == {200, 404}

Response(code, body) == [status_code |-> code, body |-> body]

Responses == {Response(c, b) : c \in StatusCodes, b \in JsonBodies}

ClientReturns ==
    {Return(r) : r \in Responses}
        \cup {Raise(Error("ConnectionError", "dashboard unreachable"))}

\* res.json(): the parsed body of a response.
Json(res) == res.body

Invocation(fn, args, ret) == [fn |-> fn, args |-> args, ret |-> ret]

(***************************************************************************)
(* get_step_run_id_for_process_step_cpr                                    *)
(***************************************************************************)
\* Variant: the exception of a collaborator is swallowed and the chain goes on.
AfterCallContinue(ret, next) == next

\* The stage that follows a collaborator call that returned `ret`: an
\* exception leaves the function, a return moves on to `next`.
AfterCall(ret, next) == IF ret.kind = "raise" THEN "idle" ELSE next

\* The value bound to the local on the left of a call that returned `ret`.
Bound(ret) == IF ret.kind = "return" THEN ret.value ELSE None

StepRunPath(run_id, step_id) ==
    "step-runs/run/" \o Format(run_id) \o "/step/" \o Format(step_id)
        \o "?include_deleted=false"

NotFoundError ==
    Error("RuntimeError", "Step run ID not found for process/step/CPR combination.")

\* step_run.get on a value that is no dict.
NoGetAttribute(v) ==
    Error("AttributeError", "'" \o v.type \o "' object has no attribute 'get'")

\* Variant: the id is tested for truth (`if not step_run_id`), so 0 is absent.
ExtractStepRunIdFalsy(step_run) ==
    IF step_run.type # "dict"
    THEN Raise(NoGetAttribute(step_run))
    ELSE LET step_run_id == DictGet(step_run, "id")
         IN IF step_run_id \in {None, PyInt(0)}
            THEN Raise(NotFoundError) ELSE Return(step_run_id)

\* Variant: the None test is left out and whatever .get gave is returned.
ExtractStepRunIdUnchecked(step_run) ==
    IF step_run.type # "dict"
    THEN Raise(NoGetAttribute(step_run))
    ELSE Return(DictGet(step_run, "id"))

\* Lines 43-48: read `id` from the parsed body and return it unless None.
ExtractStepRunId(step_run) ==
    IF step_run.type # "dict"
    THEN Raise(NoGetAttribute(step_run))
    ELSE LET step_run_id == DictGet(step_run, "id")
         IN IF step_run_id = None THEN Raise(NotFoundError) ELSE Return(step_run_id)

Resolver == "get_step_run_id_for_process_step_cpr"

NoLocals == [process_id |-> None, step_id |-> None, run_id |-> None]

CallResolver ==
    /\ pc = "idle"
    /\ \E process_name \in ProcessNames, step_name \in StepNames, cpr \in Cprs :
         call' = [op |-> Resolver, args |-> <<process_name, step_name, cpr>>]
    /\ pc' = "process"
    /\ locals' = NoLocals
    /\ trace' = <<>>
    /\ outcome' = Pending

\* One lookup stage: call the collaborator, bind its result, move on or raise.
Lookup(stage, fn, args, var, next) ==
    /\ pc = stage
    /\ \E ret \in LookupReturns(fn) :
         /\ trace' = Append(trace, Invocation(fn, args, ret))
         /\ pc' = AfterCall(ret, next)
         /\ locals' = IF pc' = "idle" THEN NoLocals
                      ELSE [locals EXCEPT ![var] = Bound(ret)]
         /\ outcome' = IF pc' = "idle" THEN Raise(ret.error) ELSE outcome
    /\ UNCHANGED call

LookupProcess ==
    Lookup("process", "get_dashboard_process_id", <<call.args[1]>>,
           "process_id", "step")

LookupStep ==
    Lookup("step", "get_dashboard_step_id", <<locals.process_id, call.args[2]>>,
           "step_id", "run")

LookupRun ==
    Lookup("run", "get_dashboard_run_id", <<locals.process_id, call.args[3]>>,
           "run_id", "get")

GetStepRun ==
    /\ pc = "get"
    /\ \E ret \in ClientReturns :
         /\ trace' = Append(trace,
                Invocation("client.get", <<StepRunPath(locals.run_id, locals.step_id)>>, ret))
         /\ outcome' = IF ret.kind = "raise" THEN Raise(ret.error)
                       ELSE ExtractStepRunId(Json(ret.value))
    /\ pc' = "idle"
    /\ locals' = NoLocals
    /\ UNCHANGED call

(***************************************************************************)
(* build_step_run_update                                                   *)
(***************************************************************************)
\* Texts that are inspected character by character are sequences of
\* one-character strings.
RECURSIVE Pad(_, _)
\* n in decimal, zero-filled on the left to `width` digits.
Pad(n, width) ==
    IF width = 0 THEN <<>> ELSE Pad(n \div 10, width - 1) \o <<DigitChar(n % 10)>>

\* The calendar fields of an instant of the UTC clock (proleptic Gregorian).
Civil(t) ==
    LET days == t.sec \div 86400
        sod == t.sec % 86400
        z == days + 719468
        era == z \div 146097
        doe == z - era * 146097
        yoe == (doe - doe \div 1460 + doe \div 36524 - doe \div 146096) \div 365
        doy == doe - (365 * yoe + yoe \div 4 - yoe \div 100)
        mp == (5 * doy + 2) \div 153
        m == IF mp < 10 THEN mp + 3 ELSE mp - 9
    IN [year |-> yoe + era * 400 + (IF m <= 2 THEN 1 ELSE 0),
        month |-> m,
        day |-> doy - (153 * mp + 2) \div 5 + 1,
        hour |-> sod \div 3600,
        minute |-> (sod % 3600) \div 60,
        second |-> sod % 60,
        microsecond |-> t.us]

UtcOffset == <<"+", "0", "0", ":", "0", "0">>

\* Variant: isoformat with its default precision, all six microsecond digits.
IsoFormatMicroseconds(dt) ==
    Pad(dt.year, 4) \o <<"-">> \o Pad(dt.month, 2) \o <<"-">> \o Pad(dt.day, 2)
        \o <<"T">> \o Pad(dt.hour, 2) \o <<":">> \o Pad(dt.minute, 2)
        \o <<":">> \o Pad(dt.second, 2)
        \o <<".">> \o Pad(dt.microsecond, 6) \o UtcOffset

\* datetime.isoformat(timespec="milliseconds") of an aware UTC datetime: the
\* microseconds are cut to milliseconds, the offset is appended.
IsoFormatMilliseconds(dt) ==
    Pad(dt.year, 4) \o <<"-">> \o Pad(dt.month, 2) \o <<"-">> \o Pad(dt.day, 2)
        \o <<"T">> \o Pad(dt.hour, 2) \o <<":">> \o Pad(dt.minute, 2)
        \o <<":">> \o Pad(dt.second, 2)
        \o <<".">> \o Pad(dt.microsecond \div 1000, 3) \o UtcOffset

StartsWith(s, prefix) ==
    /\ Len(prefix) <= Len(s)
    /\ SubSeq(s, 1, Len(prefix)) = prefix

RECURSIVE Replace(_, _, _)
\* str.replace(old, new): every occurrence of old, left to right, not overlapping.
Replace(s, old, new) ==
    IF s = <<>> THEN <<>>
    ELSE IF StartsWith(s, old)
         THEN new \o Replace(SubSeq(s, Len(old) + 1, Len(s)), old, new)
         ELSE <<Head(s)>> \o Replace(Tail(s), old, new)

\* Variant: the offset is left as isoformat wrote it.
NowStringWithOffset(t) == IsoFormatMilliseconds(Civil(t))

\* Lines 63-67: the instant read from the clock, as the payload carries it.
NowString(t) == Replace(IsoFormatMilliseconds(Civil(t)), UtcOffset, <<"Z">>)

\* The exception classes a failure can be an instance of, with their bases.
Classes == {"BusinessError", "InvalidCprError", "ValueError"}

BaseOf(cls) ==
    CASE cls = "InvalidCprError" -> "BusinessError"
      [] cls = "BusinessError" -> "Exception"
      [] cls = "ValueError" -> "Exception"
      [] cls = "Exception" -> "BaseException"
      [] cls = "BaseException" -> "object"

RECURSIVE IsSubclass(_, _)
IsSubclass(cls, of) ==
    IF cls = of THEN TRUE
    ELSE IF cls = "object" THEN FALSE
    ELSE IsSubclass(BaseOf(cls), of)

\* isinstance(obj, cls)
IsInstance(obj, cls) == obj.type = "exception" /\ IsSubclass(obj.cls, cls)

\* bool(obj): None is false; an object is as true as its __bool__/__len__ say.
Truth(obj) == IF obj = None THEN FALSE ELSE obj.truthy

\* str(exception) is its message; str(traceback) is the default object repr.
Str(obj) ==
    CASE obj.type = "exception" -> obj.text
      [] obj.type = "traceback" -> "<traceback object at 0x" \o obj.addr \o ">"

Traceback(addr) == [type |-> "traceback", addr |-> addr]

Messages == {"boom", "CPR 0101011234 findes ikke"}

Tracebacks == {None, Traceback("7f3a5c0")}

Exceptions ==
    [type : {"exception"}, cls : Classes, text : Messages,
     traceback : Tracebacks, truthy : BOOLEAN]

FailureArgs == {None} \cup Exceptions

Statuses == {"success", "failed"}

ApplicationFailure ==
    [error_code |-> PyStr("ApplicationException"),
     message |-> PyStr("Processen er fejlet"),
     details |-> PyStr("Digitalisering undersøger fejlen og genstarter processen.\n\nKontakt Digitalisering hvis det ikke er løst efter 2 arbejdsdage.")]

\* Lines 69-86: the failure record of the payload.
FailureData(failure) ==
    IF Truth(failure)
    THEN IF IsInstance(failure, "BusinessError")
         THEN [error_code |-> PyStr(failure.cls),
               message |-> PyStr(Str(failure)),
               details |-> IF failure.traceback # None
                           THEN PyStr(Str(failure.traceback)) ELSE None]
         ELSE ApplicationFailure
    ELSE None

\* Variant: the clock is read once per timestamp, a millisecond apart.
BuildStepRunUpdateTwoReads(status, failure, t) ==
    [status |-> status,
     started_at |-> NowString(t),
     finished_at |-> NowString([sec |-> t.sec + (t.us + 1000) \div 1000000,
                                us |-> (t.us + 1000) % 1000000]),
     failure |-> FailureData(failure)]

\* Lines 63-93: the payload built from the arguments and the instant read.
BuildStepRunUpdate(status, failure, t) ==
    LET now == NowString(t)
    IN [status |-> status,
        started_at |-> now,
        finished_at |-> now,
        failure |-> FailureData(failure)]

\* What the builder leaves of its failure argument: it only reads it.
FailureAfterBuild(failure) == failure

Builder == "build_step_run_update"

\* The instants at which datetime.now(timezone.utc) is read: seconds since
\* the epoch and microseconds, from 2025-12-31T23:59:59.999000 on.
Advance(t, us) ==
    [sec |-> t.sec + (t.us + us) \div 1000000, us |-> (t.us + us) % 1000000]

Instants == {Advance([sec |-> 1767225599, us |-> 999000], 500 * k) : k \in 0..MaxInstant}

Build ==
    /\ pc = "idle"
    /\ \E status \in Statuses, failure \in FailureArgs, t \in Instants :
         /\ call' = [op |-> Builder, args |-> <<status, failure>>,
                     failure_after |-> FailureAfterBuild(failure)]
         /\ trace' = <<Invocation("datetime.now", <<>>, Return(t))>>
         /\ outcome' = Return(BuildStepRunUpdate(status, failure, t))
    /\ UNCHANGED <<pc, locals>>

(***************************************************************************)
(* update_dashboard_step_run_by_id                                         *)
(***************************************************************************)
PatchPath(step_run_id) == "step-runs/" \o Format(step_run_id)

\* Line 111: the request the updater sends.
PatchRequest(step_run_id, update_data) ==
    [path |-> PatchPath(step_run_id), json |-> update_data]

\* Variant: a status of 400 or more is turned into an exception.
UpdateReturnRaiseForStatus(res) ==
    IF res.status_code >= 400
    THEN Raise(Error("HTTPError", "dashboard answered an error status"))
    ELSE Return(<<Json(res), res.status_code>>)

\* Line 113: what the updater returns for the response it got.
UpdateReturn(res) == Return(<<Json(res), res.status_code>>)

Updater == "update_dashboard_step_run_by_id"

\* The ids a caller passes: an integer, or what the resolver just returned to it.
CallerIds ==
    {PyInt(i) : i \in Ids}
        \cup (IF call.op = Resolver /\ outcome.kind = "return" THEN {outcome.value} ELSE {})

\* The bodies a caller passes: payloads of the builder and other dicts.
UpdatePayloads ==
    {BuildStepRunUpdate("success", None, [sec |-> 1767225599, us |-> 999000])}
        \cup {[status |-> "failed", failure |-> ApplicationFailure],
              [note |-> "genstartet"]}

UpdateStepRun ==
    /\ pc = "idle"
    /\ \E step_run_id \in CallerIds, update_data \in UpdatePayloads,
          ret \in ClientReturns :
         /\ call' = [op |-> Updater, args |-> <<step_run_id, update_data>>]
         /\ trace' = <<Invocation("client.patch", PatchRequest(step_run_id, update_data), ret)>>
         /\ outcome' = IF ret.kind = "raise" THEN Raise(ret.error)
                       ELSE UpdateReturn(ret.value)
    /\ UNCHANGED <<pc, locals>>

Init ==
    /\ pc = "idle"
    /\ call = [op |-> "none", args |-> <<>>]
    /\ locals = NoLocals
    /\ trace = <<>>
    /\ outcome = Pending

Next ==
    \/ CallResolver
    \/ LookupProcess
    \/ LookupStep
    \/ LookupRun
    \/ GetStepRun
    \/ Build
    \/ UpdateStepRun

Spec == Init /\ [][Next]_vars

(***************************************************************************)
(* Properties.                                                             *)
(***************************************************************************)
ResolverCall == call.op = Resolver
BuilderCall == call.op = Builder
UpdaterCall == call.op = Updater

Stages ==
    <<"get_dashboard_process_id", "get_dashboard_step_id",
      "get_dashboard_run_id", "client.get">>

StagePc == <<"process", "step", "run", "get">>

\* The resolver's GET was answered with a response (no transport error).
GetAnswered == ResolverCall /\ Len(trace) = 4 /\ trace[4].ret.kind = "return"

GetBody == trace[4].ret.value.body

CarriesIntId(body) ==
    /\ body.type = "dict"
    /\ "id" \in DOMAIN body.members
    /\ body.members["id"].type = "int"

LacksId(body) ==
    \/ body.type # "dict"
    \/ "id" \notin DOMAIN body.members
    \/ body.members["id"] = None

\* C1: when the three lookups succeed and the GET body is an object whose id
\* is an integer (0 included), the resolver returns exactly that id; the
\* process lookup got the process name, the step and run lookups got the
\* process id it returned (with the step name and the CPR), and the GET went
\* to step-runs/run/{run_id}/step/{step_id}?include_deleted=false with the
\* ids the run and step lookups returned.
C1_ReturnsResponseId ==
    (GetAnswered /\ CarriesIntId(GetBody)) =>
        /\ outcome = Return(GetBody.members["id"])
        /\ \A i \in 1..4 : trace[i].fn = Stages[i]
        /\ trace[1].args = <<call.args[1]>>
        /\ trace[2].args = <<trace[1].ret.value, call.args[2]>>
        /\ trace[3].args = <<trace[1].ret.value, call.args[3]>>
        /\ trace[4].args =
             <<"step-runs/run/" \o NatStr(trace[3].ret.value.val) \o "/step/"
                 \o NatStr(trace[2].ret.value.val) \o "?include_deleted=false">>

\* C1 witness: the resolver returned id 0 from a 200 response, after step and
\* run lookups that returned different ids.
C1_Witness ==
    /\ GetAnswered
    /\ outcome = Return(PyInt(0))
    /\ trace[4].ret.value.status_code = 200
    /\ trace[2].ret.value # trace[3].ret.value

\* C2 as stated: whenever the GET body carries no id (it is no object, has
\* no `id` member, or its `id` is null) the resolver ends in the not-found
\* RuntimeError.
C2_AbsentIdEndsNotFound ==
    (GetAnswered /\ LacksId(GetBody)) => outcome = Raise(NotFoundError)

\* C3: the updater sends exactly one PATCH, to step-runs/{step_run_id}, whose
\* body is the payload it was given; for every response, whatever its status
\* code, it returns the pair (parsed body, status code) of that response; an
\* exception of the client leaves the updater as it is.
C3_PatchOnceAndPassThrough ==
    UpdaterCall =>
        /\ Len(trace) = 1
        /\ trace[1].fn = "client.patch"
        /\ trace[1].args =
             [path |-> "step-runs/" \o Format(call.args[1]), json |-> call.args[2]]
        /\ trace[1].ret.kind = "return" =>
             outcome = Return(<<trace[1].ret.value.body, trace[1].ret.value.status_code>>)
        /\ trace[1].ret.kind = "raise" => outcome = trace[1].ret

\* C3 witness: a PATCH answered 404 whose body and status were returned.
C3_Witness ==
    /\ UpdaterCall
    /\ trace[1].ret.kind = "return"
    /\ trace[1].ret.value.status_code = 404
    /\ outcome.kind = "return"

\* C4 as stated: for every failure that is present and no business error,
\* whatever its message, attributes or truth value, the payload's failure is
\* the one fixed ApplicationException record.
C4_NonBusinessFailureIsFixedRecord ==
    (BuilderCall /\ call.args[2] # None /\ ~IsInstance(call.args[2], "BusinessError")) =>
        outcome.value.failure = ApplicationFailure

\* C5 as stated: for every failure that is present and a business error, the
\* payload's failure carries the name of the error's own class, its text, and
\* the string of its traceback, or null when it has none.
C5_BusinessFailureIsReported ==
    (BuilderCall /\ call.args[2] # None /\ IsInstance(call.args[2], "BusinessError")) =>
        outcome.value.failure =
            [error_code |-> PyStr(call.args[2].cls),
             message |-> PyStr(call.args[2].text),
             details |-> IF call.args[2].traceback = None THEN None
                         ELSE PyStr("<traceback object at 0x"
                                        \o call.args[2].traceback.addr \o ">")]

\* C6: every payload the builder returns has exactly the fields status,
\* started_at, finished_at and failure; status is the given status;
\* started_at equals finished_at, the clock having been read once; and with
\* no failure given, failure is null.
C6_PayloadShape ==
    BuilderCall =>
        /\ outcome.kind = "return"
        /\ DOMAIN outcome.value = {"status", "started_at", "finished_at", "failure"}
        /\ outcome.value.status = call.args[1]
        /\ outcome.value.started_at = outcome.value.finished_at
        /\ Len(trace) = 1 /\ trace[1].fn = "datetime.now"
        /\ call.args[2] = None => outcome.value.failure = None

\* C6 witness: build_step_run_update("success", None) has returned.
C6_Witness ==
    /\ BuilderCall
    /\ call.args = <<"success", None>>
    /\ outcome.value.failure = None

Digits == {"0", "1", "2", "3", "4", "5", "6", "7", "8", "9"}

DigitValue(c) == CHOOSE d \in 0..9 : DigitChar(d) = c

RECURSIVE Number(_)
\* The number a sequence of digits writes.
Number(ds) ==
    IF ds = <<>> THEN 0
    ELSE 10 * Number(SubSeq(ds, 1, Len(ds) - 1)) + DigitValue(ds[Len(ds)])

Contains(s, sub) ==
    \E i \in 1..(Len(s) - Len(sub) + 1) : SubSeq(s, i, i + Len(sub) - 1) = sub

\* YYYY-MM-DDTHH:MM:SS.mmmZ
IsTimestamp(s) ==
    /\ Len(s) = 24
    /\ \A i \in {1, 2, 3, 4, 6, 7, 9, 10, 12, 13, 15, 16, 18, 19, 21, 22, 23} :
         s[i] \in Digits
    /\ s[5] = "-" /\ s[8] = "-" /\ s[11] = "T"
    /\ s[14] = ":" /\ s[17] = ":" /\ s[20] = "." /\ s[24] = "Z"

\* The fields the timestamp writes are those of instant t, cut to milliseconds.
WritesInstant(s, t) ==
    /\ Number(SubSeq(s, 1, 4)) = Civil(t).year
    /\ Number(SubSeq(s, 6, 7)) = Civil(t).month
    /\ Number(SubSeq(s, 9, 10)) = Civil(t).day
    /\ Number(SubSeq(s, 12, 13)) = (t.sec % 86400) \div 3600
    /\ Number(SubSeq(s, 15, 16)) = (t.sec % 3600) \div 60
    /\ Number(SubSeq(s, 18, 19)) = t.sec % 60
    /\ Number(SubSeq(s, 21, 23)) = t.us \div 1000

NewYear2026 ==
    <<"2", "0", "2", "6", "-", "0", "1", "-", "0", "1", "T",
      "0", "0", ":", "0", "0", ":", "0", "0", ".", "0", "0", "0", "Z">>

\* C7: both timestamps of a payload are the instant read from the UTC clock
\* written as YYYY-MM-DDTHH:MM:SS.mmmZ: three fractional digits (also when
\* they are 000), a final Z, and no +00:00 anywhere; the first instant of
\* 2026 reads 2026-01-01T00:00:00.000Z.
C7_TimestampFormat ==
    BuilderCall =>
        \A f \in {"started_at", "finished_at"} :
            /\ IsTimestamp(outcome.value[f])
            /\ ~Contains(outcome.value[f], UtcOffset)
            /\ WritesInstant(outcome.value[f], trace[1].ret.value)
            /\ trace[1].ret.value = [sec |-> 1767225600, us |-> 0] =>
                 outcome.value[f] = NewYear2026

\* C7 witness: a payload built at an instant whose sub-second part is zero.
C7_Witness ==
    /\ BuilderCall
    /\ trace[1].ret.value.us = 0
    /\ SubSeq(outcome.value.started_at, 20, 24) = <<".", "0", "0", "0", "Z">>

BuildPair == BuilderCall /\ call'.op = Builder /\ call'.args = call.args

SameInstant == trace'[1].ret.value = trace[1].ret.value

SameMillisecond ==
    /\ trace'[1].ret.value.sec = trace[1].ret.value.sec
    /\ trace'[1].ret.value.us \div 1000 = trace[1].ret.value.us \div 1000

\* The builder call that ends in the next state sent no HTTP request and
\* left its failure argument as it was.
BuildIsPure ==
    call'.op = Builder =>
        /\ \A i \in 1..Len(trace') : trace'[i].fn \notin {"client.get", "client.patch"}
        /\ call'.failure_after = call'.args[2]

SameButTimestamps ==
    /\ outcome'.value.status = outcome.value.status
    /\ outcome'.value.failure = outcome.value.failure

TimestampsDiffer ==
    /\ outcome'.value.started_at # outcome.value.started_at
    /\ outcome'.value.finished_at # outcome.value.finished_at

\* C9 as stated: the builder is pure, two calls with the same status and
\* failure at the same instant return the same payload, and two calls at
\* different instants return payloads that differ in started_at and
\* finished_at and in nothing else.
C9_DifferentInstantsDiffer ==
    [][/\ BuildIsPure
       /\ BuildPair =>
            /\ SameInstant => outcome' = outcome
            /\ ~SameInstant => (SameButTimestamps /\ TimestampsDiffer)]_vars

\* C9 amended: the builder is pure; two calls with the same status and failure
\* return payloads with the same status and failure; their timestamps are
\* equal when the two instants lie in the same millisecond (so the payloads
\* are identical) and differ when they do not.
C9_SameMillisecondSamePayload ==
    [][/\ BuildIsPure
       /\ BuildPair =>
            /\ SameButTimestamps
            /\ SameMillisecond => outcome' = outcome
            /\ ~SameMillisecond => TimestampsDiffer]_vars

\* C9 witness: a payload with a failure built half a millisecond after the
\* first instant, within the same millisecond.
C9_Witness ==
    /\ BuilderCall
    /\ trace[1].ret.value = [sec |-> 1767225599, us |-> 999500]
    /\ call.args[2] # None
    /\ outcome.value.failure # None

ResolverEnded ==
    \/ Len(trace) = 4
    \/ Len(trace) >= 1 /\ trace[Len(trace)].ret.kind = "raise"

\* C10: the resolver calls process lookup, step lookup, run lookup and GET in
\* this order, each at most once; a stage runs only after every earlier one
\* returned; when a lookup or the GET raises, the call ends there with that
\* same error, nothing further is called and nothing is returned; the
\* resolver sends no PATCH.
C10_FailFastInOrder ==
    ResolverCall =>
        /\ Len(trace) <= 4
        /\ \A i \in 1..Len(trace) : trace[i].fn = Stages[i]
        /\ \A i \in 1..(Len(trace) - 1) : trace[i].ret.kind = "return"
        /\ pc = IF ResolverEnded THEN "idle" ELSE StagePc[Len(trace) + 1]
        /\ ~ResolverEnded => outcome = Pending
        /\ (Len(trace) >= 1 /\ trace[Len(trace)].ret.kind = "raise") =>
             outcome = trace[Len(trace)].ret

\* C10 witness: the step lookup raised and the resolver ended with its error
\* after two calls.
C10_Witness ==
    /\ ResolverCall
    /\ Len(trace) = 2
    /\ trace[2].ret.kind = "raise"
    /\ outcome = trace[2].ret
    /\ pc = "idle"
====
